---------------------------- MODULE Spec2Model ----------------------------
(***************************************************************************)
(* A model of src/src/App.jsx (AuralForge): the prompt hasher and the      *)
(* parameter mapper, the WAV encoder, and the three generation requests    *)
(* of the App component with their capture sessions.                       *)
(*                                                                         *)
(* Three specifications share the variables:                               *)
(*   SpecHash  hashString run character by character over bounded strings, *)
(*             with the parameter derivations applied to every string;     *)
(*   SpecWav   audioBufferToWavBlob run step by step over bounded buffers; *)
(*   Spec      the App component: generateAudio, generateVideo,            *)
(*             mergeAndPreview and the callbacks they schedule.            *)
(* A specification leaves the variables of the other two at their idle     *)
(* values.                                                                 *)
(***************************************************************************)
EXTENDS Integers, Sequences, FiniteSets, TLC

VARIABLES
    \* ---- hashString (SpecHash)
    str,          \* the characters consumed so far, as UTF-16 code units
    hash,         \* the variable `hash` of hashString after the last `hash |= 0`
    refAcc,       \* the accumulator of the reference fold acc*31 + code
    params,       \* the parameter set last derived from str, or NoParams
    \* ---- audioBufferToWavBlob (SpecWav)
    buffer,       \* the AudioBuffer being encoded
    wpc,          \* position in audioBufferToWavBlob
    view,         \* the bytes of arrayBuffer, view[k+1] is byte offset k
    offset,       \* the header cursor `offset`
    interleaved,  \* the Float32Array `interleaved`
    idx,          \* the PCM cursor `idx`
    widx,         \* the loop counter i of the PCM loop
    \* ---- the App component (Spec)
    prompt,       \* useState prompt
    audioBlob,    \* useState audioBlob
    videoBlob,    \* useState videoBlob
    mergedBlob,   \* useState mergedBlob
    loading,      \* useState loading: "", "audio", "video", "merge"
    pc,           \* what the running handler awaits: "idle", "audio", "video",
                  \* "decode" (arrayBuffer / decodeAudioData), "merge"
    reqPrompt,    \* the prompt the running handler closed over
    recorder,     \* the session's MediaRecorder: "none", "recording",
                  \* "flushing" (stop() called), "stopPending", "stopped"
    chunks,       \* the array `chunks` of the session
    emitted,      \* dataavailable events the recorder has fired in the session
    rafPending,   \* a requestAnimationFrame(draw) of the latest session is pending
    rafDriver,    \* whose draw it is: "video" or "merge"
    target,       \* `seconds` / `duration` of the latest session, in ms
    stale,        \* pending draw callbacks of earlier sessions
    elapsed,      \* performance.now() - start of the latest session, in ms
    audioTimer,   \* the setTimeout(src.start, 50) is pending
    stopTimer,    \* the setTimeout(recorder.stop, ...) is pending
    audioStartedAt, \* `elapsed` when src.start() ran, or -1
    stoppedAt,    \* `elapsed` when recorder.stop() was called, or -1
    emittedLog,   \* every dataavailable event of the session, empty ones too
    canvas,       \* what the latest draw of the session painted
    nreq,         \* handler invocations so far
    lastOp,       \* the latest invocation: its operation and what it found
    failure,      \* the first failure inside the latest invocation, or "none"
    reported,     \* the alert the latest invocation raised, or "none"
    effects,      \* what the latest invocation has started
    snapshot,     \* the three blobs when the latest invocation began
    derived,      \* every parameter derivation made so far
    \* ---- the master gain envelope (SpecEnvelope)
    seconds,      \* the parameter `seconds` of generateAmbientAudioFromPrompt, in ms
    gainCalls,    \* the automation calls made on master.gain, in call order
    masterGain,   \* the automation timeline of master.gain
    gainProbe,    \* the last value of master.gain the rendering read
    \* ---- wrapText (SpecWrap)
    wrapArgs,     \* text, maxWidth and the measure of context.measureText
    linesVideo,   \* what wrapText of generateProceduralVideo returned
    linesMerge    \* what wrapText of renderMergedAV returned

hashVars == <<str, hash, refAcc, params>>
wavVars  == <<buffer, wpc, view, offset, interleaved, idx, widx>>
appVars  == <<prompt, audioBlob, videoBlob, mergedBlob, loading, pc, reqPrompt,
              recorder, chunks, emitted, rafPending, rafDriver, target, stale,
              elapsed, audioTimer, stopTimer, audioStartedAt, stoppedAt,
              emittedLog, canvas, nreq, lastOp,
              failure, reported, effects, snapshot, derived>>
envVars  == <<seconds, gainCalls, masterGain, gainProbe>>
wrapVars == <<wrapArgs, linesVideo, linesMerge>>
renderVars == <<envVars, wrapVars>>
vars     == <<hashVars, wavVars, appVars, renderVars>>

-----------------------------------------------------------------------------
(***************************************************************************)
(* Numbers.  A JavaScript number holding an integer is kept as three       *)
(* 16-bit limbs <<l2, l1, l0>> in 48-bit two's complement, so that the     *)
(* 32-bit wrap of `<<` and `|= 0` and the value 2^31 are all exact.        *)
(***************************************************************************)
W16 == 256 * 256

Limb == 0 .. (W16 - 1)

Num(l2, l1, l0) == <<l2, l1, l0>>

IsNegative(x) == x[1] >= 32768

\* x + y on 48 bits
Add48(x, y) ==
    LET s0 == x[3] + y[3]
        s1 == x[2] + y[2] + (s0 \div W16)
        s2 == x[1] + y[1] + (s1 \div W16)
    IN  <<s2 % W16, s1 % W16, s0 % W16>>

\* -x on 48 bits
Neg48(x) == Add48(<<(W16 - 1) - x[1], (W16 - 1) - x[2], (W16 - 1) - x[3]>>, <<0, 0, 1>>)

Sub48(x, y) == Add48(x, Neg48(y))

\* ECMAScript ToInt32: the low 32 bits, read as a signed value
ToInt32(x) == <<IF x[2] >= 32768 THEN W16 - 1 ELSE 0, x[2], x[3]>>

IsInt32(x) == x = ToInt32(x)

\* ECMAScript x << 5: ToInt32(x) shifted, the result wrapped to 32 bits
Shl5(x) ==
    LET s0 == x[3] * 32
        s1 == x[2] * 32 + (s0 \div W16)
    IN  ToInt32(<<0, s1 % W16, s0 % W16>>)

\* Math.abs
MathAbs(x) == IF IsNegative(x) THEN Neg48(x) ELSE x

\* x mod m for x >= 0, limb by limb (2^16 mod m and 2^32 mod m stay small)
ModNonNeg(x, m) ==
    LET r1 == W16 % m
        r2 == (r1 * r1) % m
    IN  (((x[1] % m) * r2) + ((x[2] % m) * r1) + (x[3] % m)) % m

\* ECMAScript x % m for m > 0: the remainder takes the sign of the dividend
JsMod(x, m) == IF IsNegative(x) THEN 0 - ModNonNeg(Neg48(x), m) ELSE ModNonNeg(x, m)

-----------------------------------------------------------------------------
(***************************************************************************)
(* hashString, lines 5-12.                                                 *)
(***************************************************************************)
\* A plausible slip: shift by 4, which multiplies by 15 instead of 31.
hashStepShift4(h, c) ==
    LET s0 == h[3] * 16
        s1 == h[2] * 16 + (s0 \div W16)
        shl4 == ToInt32(<<0, s1 % W16, s0 % W16>>)
    IN  ToInt32(Add48(Sub48(shl4, h), Num(0, 0, c)))

\* One loop iteration: hash = (hash << 5) - hash + str.charCodeAt(i); hash |= 0
hashStep(h, c) == ToInt32(Add48(Sub48(Shl5(h), h), Num(0, 0, c)))

\* the loop of lines 7-10 from index i with `hash` = h (the test on next only
\* makes the accumulator a value before the next iteration reads it)
RECURSIVE hashLoop(_, _, _)
hashLoop(s, i, h) ==
    IF i > Len(s) THEN h
    ELSE LET next == hashStep(h, s[i])
         IN  IF next \in Seq(Nat) THEN hashLoop(s, i + 1, next) ELSE next

\* A plausible slip: the final Math.abs left out.
hashStringNoAbs(s) == hashLoop(s, 1, Num(0, 0, 0))

hashString(s) == MathAbs(hashLoop(s, 1, Num(0, 0, 0)))

\* line 11 on the loop variable as it stands: return Math.abs(hash)
hashResult == MathAbs(hash)

(***************************************************************************)
(* paletteFromPrompt, lines 15-22.  The returned CSS string                *)
(* `hsl(hue sat% light%)` is kept as the triple it prints.                 *)
(***************************************************************************)
hues == <<190, 195, 200, 205, 210, 215>>

\* A plausible slip: the hue also moves with the number of requests so far.
paletteFromPromptPerRequest(p) ==
    LET h == hashString(p)
    IN  [hue   |-> hues[((JsMod(h, Len(hues)) + nreq) % Len(hues)) + 1],
         sat   |-> 80 + JsMod(h, 20),
         light |-> 45 + JsMod(h, 10)]

paletteFromPrompt(p) ==
    LET h == hashString(p)
    IN  [hue   |-> hues[JsMod(h, Len(hues)) + 1],
         sat   |-> 80 + JsMod(h, 20),
         light |-> 45 + JsMod(h, 10)]

(***************************************************************************)
(* The audio parameters of generateAmbientAudioFromPrompt, lines 81, 82    *)
(* and 111.  prompt + 'detune' and prompt + 'lfo' are concatenations of    *)
(* code units.  The LFO rate 0.1 + k/100 is kept in hundredths of a hertz  *)
(* (10 + k): k is an integer below 30, far from where rounding of the      *)
(* floating-point sum could move it across 0.1 or 0.4.                     *)
(***************************************************************************)
SuffixDetune == <<100, 101, 116, 117, 110, 101>>    \* 'detune'
SuffixLfo    == <<108, 102, 111>>                   \* 'lfo'

baseFreq(p) == 110 + JsMod(hashString(p), 220)

detuneCents(p) == JsMod(hashString(p \o SuffixDetune), 200) - 100

lfoRateHundredths(p) == 10 + JsMod(hashString(p \o SuffixLfo), 30)

\* The Parameter Set of a prompt: what the two functions derive from it.
ParameterSet(p) ==
    [baseFrequencyHz |-> baseFreq(p),
     detuneCents     |-> detuneCents(p),
     lfoRate100      |-> lfoRateHundredths(p),
     paletteColor    |-> paletteFromPrompt(p)]

NoParams == [baseFrequencyHz |-> 0]

-----------------------------------------------------------------------------
(***************************************************************************)
(* SpecHash: hashString consumes one character per step; the reference     *)
(* fold of the specification runs beside it.                               *)
(***************************************************************************)
MaxLen == 5

\* U+0914, "'", '<', '(' and '_': the five-character prompt made of them in
\* this order (as the ASCII prompt "xfjfxtf") drives the accumulator to -2^31.
Alphabet == {2324, 39, 60, 40, 95}

MinInt32Prompt == <<2324, 39, 60, 40, 95>>

\* The reference fold: acc := (acc*31 + code) wrapped to 32-bit two's complement.
RefStep(a, c) ==
    LET s0 == a[3] * 31 + c
        s1 == a[2] * 31 + (s0 \div W16)
    IN  ToInt32(<<0, s1 % W16, s0 % W16>>)

IdleHash == str = <<>> /\ hash = Num(0, 0, 0) /\ refAcc = Num(0, 0, 0) /\ params = NoParams

\* loop body of hashString for the next character c
HashChar(c) ==
    /\ Len(str) < MaxLen
    /\ str' = Append(str, c)
    /\ hash' = hashStep(hash, c)
    /\ refAcc' = RefStep(refAcc, c)
    /\ params' = NoParams
    /\ UNCHANGED <<wavVars, appVars, renderVars>>

\* the Parameter Mapper applied to the string read so far
Derive ==
    /\ params = NoParams
    /\ params' = ParameterSet(str)
    /\ UNCHANGED <<str, hash, refAcc>>
    /\ UNCHANGED <<wavVars, appVars, renderVars>>

-----------------------------------------------------------------------------
(***************************************************************************)
(* audioBufferToWavBlob, lines 25-73.                                      *)
(*                                                                         *)
(* A sample is the rational k / SampleDen, kept as its numerator k; the    *)
(* products s * 0x8000 and s * 0x7fff are then exact rationals, as they    *)
(* are exact in the double arithmetic of the code (a float32 sample times  *)
(* a 15-bit constant fits a double).                                       *)
(***************************************************************************)
MaxChannels == 2
MaxFrames == 3
SampleDen == 5

sampleRate == 44100

SampleRates == {8000, sampleRate, 48000}

\* numerators from just below -1 to just above 1, so that the clamp acts
SampleNums == (0 - (SampleDen + 1)) .. (SampleDen + 1)

NumSeeds == 2 * SampleDen + 3

\* buffer.getChannelData(ch)[i]: the buffers tried are those whose samples
\* walk through SampleNums from a seed, different in every channel and frame
getChannelData(buf, ch, i) ==
    ((buf.seed + 3 * i + ch) % NumSeeds) - (SampleDen + 1)

Buffers ==
    [numberOfChannels : 1 .. MaxChannels,
     length           : 0 .. MaxFrames,
     sampleRate       : SampleRates,
     seed             : 0 .. (NumSeeds - 1)]

NoBuffer == [numberOfChannels |-> 0, length |-> 0, sampleRate |-> 0, seed |-> 0]

bytesPerSample == 2

\* A plausible slip: the block alignment without the bytes per sample.
blockAlignChannelsOnly(buf) == buf.numberOfChannels

blockAlign(buf) == buf.numberOfChannels * bytesPerSample

bufferLength(buf) == 44 + buf.length * blockAlign(buf)

\* DataView.setUint8 / setUint16 / setUint32 (little-endian) at byte offset off
setUint8(v, off, x) == [v EXCEPT ![off + 1] = x % 256]

setUint16(v, off, x) ==
    [v EXCEPT ![off + 1] = x % 256, ![off + 2] = (x \div 256) % 256]

setUint32(v, off, x) ==
    [v EXCEPT ![off + 1] = x % 256,
              ![off + 2] = (x \div 256) % 256,
              ![off + 3] = (x \div W16) % 256,
              ![off + 4] = (x \div (W16 * 256)) % 256]

RECURSIVE writeString(_, _, _, _)
writeString(v, off, string, i) ==
    IF i > Len(string) THEN v
    ELSE writeString(setUint8(v, off + (i - 1), string[i]), off, string, i + 1)

\* The header statements of lines 43-55 in order: what is written, and by how
\* much the statement then advances `offset`.
HeaderWrites(buf) ==
    << [op |-> "string", val |-> <<82, 73, 70, 70>>,   adv |-> 4],   \* 'RIFF'
       [op |-> "uint32", val |-> 36 + buf.length * blockAlign(buf), adv |-> 4],
       [op |-> "string", val |-> <<87, 65, 86, 69>>,   adv |-> 4],   \* 'WAVE'
       [op |-> "string", val |-> <<102, 109, 116, 32>>, adv |-> 4],  \* 'fmt '
       [op |-> "uint32", val |-> 16, adv |-> 4],
       [op |-> "uint16", val |-> 1, adv |-> 2],
       [op |-> "uint16", val |-> buf.numberOfChannels, adv |-> 2],
       [op |-> "uint32", val |-> buf.sampleRate, adv |-> 4],
       [op |-> "uint32", val |-> buf.sampleRate * blockAlign(buf), adv |-> 4],
       [op |-> "uint16", val |-> blockAlign(buf), adv |-> 2],
       [op |-> "uint16", val |-> 16, adv |-> 2],
       [op |-> "string", val |-> <<100, 97, 116, 97>>, adv |-> 4],   \* 'data'
       [op |-> "uint32", val |-> buf.length * blockAlign(buf), adv |-> 4] >>

applyWrite(v, off, w) ==
    CASE w.op = "string" -> writeString(v, off, w.val, 1)
      [] w.op = "uint16" -> setUint16(v, off, w.val)
      [] w.op = "uint32" -> setUint32(v, off, w.val)

\* the view and the offset after the header statements i .. of ws
RECURSIVE runHeader(_, _, _, _)
runHeader(v, off, ws, i) ==
    IF i > Len(ws) THEN [view |-> v, offset |-> off]
    ELSE runHeader(applyWrite(v, off, ws[i]), off + ws[i].adv, ws, i + 1)

\* A plausible slip: the channels one after the other (planar), not interleaved.
interleavePlanar(buf) ==
    [j \in 1 .. (buf.length * buf.numberOfChannels) |->
        getChannelData(buf, (j - 1) \div buf.length, (j - 1) % buf.length)]

\* lines 58-64: interleaved[i * numOfChan + ch] = channel[i]
interleave(buf) ==
    [j \in 1 .. (buf.length * buf.numberOfChannels) |->
        LET at == CHOOSE p \in (0 .. (buf.numberOfChannels - 1)) \X (0 .. (buf.length - 1)) :
                      p[2] * buf.numberOfChannels + p[1] = j - 1
        IN  getChannelData(buf, at[1], at[2])]

\* line 67: Math.max(-1, Math.min(1, s)) on numerators
clamp(k) ==
    LET lo == IF k < SampleDen THEN k ELSE SampleDen
    IN  IF lo > 0 - SampleDen THEN lo ELSE 0 - SampleDen

\* A plausible slip: one scale, 0x8000, for both signs.
scaledOneScale(k) == k * 32768

\* line 68: s < 0 ? s * 0x8000 : s * 0x7fff, as a numerator over SampleDen
scaled(k) == IF k < 0 THEN k * 32768 ELSE k * 32767

\* ToIntegerOrInfinity of n / d for d > 0: the fraction is dropped (towards 0)
truncate(n, d) == IF n >= 0 THEN n \div d ELSE 0 - ((0 - n) \div d)

\* DataView.setInt16(off, x, true) for x = n / SampleDen: ToInt16 truncates x
\* and wraps it to 16 bits; the two bytes are stored low byte first
setInt16(v, off, n) == setUint16(v, off, truncate(n, SampleDen) % W16)

IdleWav ==
    /\ buffer = NoBuffer /\ wpc = "idle" /\ view = <<>> /\ offset = 0
    /\ interleaved = <<>> /\ idx = 0 /\ widx = 0

\* lines 26-33: the sizes, new ArrayBuffer(bufferLength), new DataView
Allocate ==
    /\ wpc = "start"
    /\ view' = [k \in 1 .. bufferLength(buffer) |-> 0]
    /\ wpc' = "header"
    /\ UNCHANGED <<buffer, offset, interleaved, idx, widx>>
    /\ UNCHANGED <<hashVars, appVars, renderVars>>

\* lines 42-55: the RIFF header
WriteHeader ==
    /\ wpc = "header"
    /\ LET r == runHeader(view, 0, HeaderWrites(buffer), 1)
       IN  view' = r.view /\ offset' = r.offset
    /\ wpc' = "interleave"
    /\ UNCHANGED <<buffer, interleaved, idx, widx>>
    /\ UNCHANGED <<hashVars, appVars, renderVars>>

\* lines 58-65: the interleaved copy, idx = 44
Interleave ==
    /\ wpc = "interleave"
    /\ interleaved' = interleave(buffer)
    /\ idx' = 44
    /\ widx' = 0
    /\ wpc' = "pcm"
    /\ UNCHANGED <<buffer, view, offset>>
    /\ UNCHANGED <<hashVars, appVars, renderVars>>

\* lines 66-70: one iteration of the PCM loop
WriteSample ==
    /\ wpc = "pcm"
    /\ widx < Len(interleaved)
    /\ LET s == clamp(interleaved[widx + 1])
       IN  view' = setInt16(view, idx, scaled(s))
    /\ idx' = idx + 2
    /\ widx' = widx + 1
    /\ UNCHANGED <<buffer, wpc, offset, interleaved>>
    /\ UNCHANGED <<hashVars, appVars, renderVars>>

\* line 72: the loop has ended, the bytes become the Blob
ReturnBlob ==
    /\ wpc = "pcm"
    /\ widx >= Len(interleaved)
    /\ wpc' = "done"
    /\ UNCHANGED <<buffer, view, offset, interleaved, idx, widx>>
    /\ UNCHANGED <<hashVars, appVars, renderVars>>

\* lines 77-79 and 165-166: the buffer OfflineAudioContext(2, length, sampleRate)
\* renders for `seconds`, as far as the encoder's sizes depend on it
renderedBuffer(secs) ==
    [numberOfChannels |-> 2, length |-> secs * sampleRate,
     sampleRate |-> sampleRate, seed |-> 0]

-----------------------------------------------------------------------------
(***************************************************************************)
(* The master gain envelope of generateAmbientAudioFromPrompt, lines       *)
(* 119-123.  Times are in ms, gain values in tenths.  An AudioParam keeps  *)
(* its automation events ordered by time, a new event going after those    *)
(* already at its time; between an event and a following linear ramp the   *)
(* value is interpolated, and at and after the last event at a time it is  *)
(* that event's value.                                                     *)
(***************************************************************************)
MaxSeconds == 8

\* the durations rendered: every half second from 1 s; below 1 s the time
\* seconds - 1 of line 122 is negative and the call throws
Durations == {500 * k : k \in 2 .. 2 * MaxSeconds}

\* A plausible slip: the sustain ends two seconds before the end.
envelopeCallsEarlySustain(d) ==
    <<[op |-> "setValueAtTime", value |-> 0, time |-> 0],
      [op |-> "linearRampToValueAtTime", value |-> 8, time |-> 1000],
      [op |-> "linearRampToValueAtTime", value |-> 6, time |-> d - 2000],
      [op |-> "linearRampToValueAtTime", value |-> 0, time |-> d]>>

\* lines 120-123
envelopeCalls(d) ==
    <<[op |-> "setValueAtTime", value |-> 0, time |-> 0],
      [op |-> "linearRampToValueAtTime", value |-> 8, time |-> 1000],
      [op |-> "linearRampToValueAtTime", value |-> 6, time |-> d - 1000],
      [op |-> "linearRampToValueAtTime", value |-> 0, time |-> d]>>

\* the timeline with event e added: after every event whose time is not later
insertEvent(tl, e) ==
    LET n == Cardinality({i \in 1 .. Len(tl) : tl[i].time <= e.time})
    IN  SubSeq(tl, 1, n) \o <<e>> \o SubSeq(tl, n + 1, Len(tl))

\* the value of the timeline at time t >= 0, as the fraction num / den
valueAtTime(tl, t) ==
    LET n == Cardinality({i \in 1 .. Len(tl) : tl[i].time <= t})
    IN  IF n = 0 THEN [num |-> 10, den |-> 1]       \* the gain's default value 1
        ELSE IF n < Len(tl) /\ tl[n + 1].op = "linearRampToValueAtTime"
        THEN LET T0 == tl[n].time
                 T1 == tl[n + 1].time
             IN  [num |-> tl[n].value * (T1 - T0)
                            + (tl[n + 1].value - tl[n].value) * (t - T0),
                  den |-> T1 - T0]
        ELSE [num |-> tl[n].value, den |-> 1]

NoProbe == [time |-> 0 - 1]

IdleEnvelope ==
    /\ seconds = 0 /\ gainCalls = <<>> /\ masterGain = <<>> /\ gainProbe = NoProbe

\* one of the four statements of lines 120-123, in their order
ScheduleGain ==
    /\ seconds # 0
    /\ Len(gainCalls) < Len(envelopeCalls(seconds))
    /\ LET e == envelopeCalls(seconds)[Len(gainCalls) + 1]
       IN  /\ gainCalls' = Append(gainCalls, e)
           /\ masterGain' = insertEvent(masterGain, e)
    /\ UNCHANGED <<seconds, gainProbe>>
    /\ UNCHANGED <<hashVars, wavVars, appVars, wrapVars>>

\* line 165: the rendering reads the gain at a time of the render
ReadGain(t) ==
    /\ Len(gainCalls) = Len(envelopeCalls(seconds))
    /\ t <= seconds
    /\ gainProbe' = [time |-> t, value |-> valueAtTime(masterGain, t)]
    /\ UNCHANGED <<seconds, gainCalls, masterGain>>
    /\ UNCHANGED <<hashVars, wavVars, appVars, wrapVars>>

-----------------------------------------------------------------------------
(***************************************************************************)
(* wrapText, lines 249-265 in generateProceduralVideo and lines 349-365 in *)
(* renderMergedAV.  A text is a sequence of code units; context.measureText *)
(* is a width per code unit, summed: non-negative, and no smaller for a    *)
(* longer text.                                                            *)
(***************************************************************************)
MaxText == 9
MaxWidth == 3

Space == 32
Letter == 97

Texts == UNION {[1 .. n -> {Space, Letter}] : n \in 0 .. MaxText}

\* the measures: a space 0 or 1 wide, a letter 1 or 2 wide
Measures == [{Space, Letter} -> 0 .. 2] \ {cw \in [{Space, Letter} -> 0 .. 2] :
                                              cw[Space] = 2 \/ cw[Letter] = 0}

RECURSIVE measureText(_, _)
measureText(cw, string) ==
    IF string = <<>> THEN 0 ELSE cw[Head(string)] + measureText(cw, Tail(string))

\* text.split(' '): the pieces between the spaces, empty pieces too
RECURSIVE split(_, _, _)
split(text, i, piece) ==
    IF i > Len(text) THEN <<piece>>
    ELSE IF text[i] = Space THEN <<piece>> \o split(text, i + 1, <<>>)
    ELSE split(text, i + 1, Append(piece, text[i]))

\* lines.slice(0, 4)
slice4(lines) == SubSeq(lines, 1, IF Len(lines) < 4 THEN Len(lines) ELSE 4)

\* lines 253-263: the loop over the words, then the last line
RECURSIVE wrapLoopVideo(_, _, _, _, _, _)
wrapLoopVideo(words, i, lines, current, maxWidth, cw) ==
    IF i > Len(words)
    THEN IF current # <<>> THEN Append(lines, current) ELSE lines
    ELSE LET w == words[i]
             test == IF current # <<>> THEN current \o <<Space>> \o w ELSE w
             width == measureText(cw, test)
         IN  IF width > maxWidth /\ current # <<>>
             THEN wrapLoopVideo(words, i + 1, Append(lines, current), w, maxWidth, cw)
             ELSE wrapLoopVideo(words, i + 1, lines, test, maxWidth, cw)

\* A plausible slip: the cap of line 264 is left out.
wrapTextVideoNoCap(text, maxWidth, cw) ==
    wrapLoopVideo(split(text, 1, <<>>), 1, <<>>, <<>>, maxWidth, cw)

\* lines 249-265
wrapTextVideo(text, maxWidth, cw) ==
    slice4(wrapLoopVideo(split(text, 1, <<>>), 1, <<>>, <<>>, maxWidth, cw))

\* lines 353-363
RECURSIVE wrapLoopMerge(_, _, _, _, _, _)
wrapLoopMerge(words, i, lines, current, maxWidth, cw) ==
    IF i > Len(words)
    THEN IF current # <<>> THEN Append(lines, current) ELSE lines
    ELSE LET w == words[i]
             test == IF current # <<>> THEN current \o <<Space>> \o w ELSE w
             width == measureText(cw, test)
         IN  IF width > maxWidth /\ current # <<>>
             THEN wrapLoopMerge(words, i + 1, Append(lines, current), w, maxWidth, cw)
             ELSE wrapLoopMerge(words, i + 1, lines, test, maxWidth, cw)

\* lines 349-365
wrapTextMerge(text, maxWidth, cw) ==
    slice4(wrapLoopMerge(split(text, 1, <<>>), 1, <<>>, <<>>, maxWidth, cw))

NoArgs == [maxWidth |-> 0 - 1]
NoLines == [returned |-> FALSE]

IdleWrap == wrapArgs = NoArgs /\ linesVideo = NoLines /\ linesMerge = NoLines

IdleRender == IdleEnvelope /\ IdleWrap

\* line 233: wrapText(prompt, width * 0.8, ctx) in the plain video driver
WrapVideo ==
    /\ wrapArgs # NoArgs /\ linesVideo = NoLines
    /\ linesVideo' = [returned |-> TRUE,
                      lines |-> wrapTextVideo(wrapArgs.text, wrapArgs.maxWidth, wrapArgs.cw)]
    /\ UNCHANGED <<wrapArgs, linesMerge>>
    /\ UNCHANGED <<hashVars, wavVars, appVars, envVars>>

\* line 335: wrapText(prompt, width * 0.8, ctx) in the merge driver
WrapMerge ==
    /\ wrapArgs # NoArgs /\ linesMerge = NoLines
    /\ linesMerge' = [returned |-> TRUE,
                      lines |-> wrapTextMerge(wrapArgs.text, wrapArgs.maxWidth, wrapArgs.cw)]
    /\ UNCHANGED <<wrapArgs, linesVideo>>
    /\ UNCHANGED <<hashVars, wavVars, appVars, envVars>>

-----------------------------------------------------------------------------
(***************************************************************************)
(* The App component, lines 391-443, with generateProceduralVideo (lines   *)
(* 171-270) and renderMergedAV (lines 273-381).                            *)
(*                                                                         *)
(* One action is one task of the event loop: a click handler up to its     *)
(* first pending await, or a callback together with the promise reactions  *)
(* it triggers (these run as microtasks before any other task).            *)
(*                                                                         *)
(* Time is the clock of the latest capture session, `elapsed`; it moves    *)
(* forward through Instants.  A draw callback left behind by an earlier    *)
(* session keeps the offset of its own start from that clock.              *)
(***************************************************************************)
MaxRequests == 2
MaxChunks == 1

audioSeconds == 8        \* line 404: generateAmbientAudioFromPrompt(prompt, 8)
videoSeconds == 6        \* line 417: generateProceduralVideo(prompt, 6, 30)
audioLeadMs == 50        \* line 376
stopMarginMs == 100      \* line 379

\* the values the session clock takes: around the lead, the video target and
\* the audio duration with its margin
Instants ==
    {audioLeadMs, videoSeconds * 1000, audioSeconds * 1000,
     audioSeconds * 1000 + stopMarginMs}

\* line 392: 'A dark biomechanical lord awakens amidst thunder'
DefaultPrompt ==
    <<65, 32, 100, 97, 114, 107, 32, 98, 105, 111, 109, 101, 99, 104, 97, 110,
      105, 99, 97, 108, 32, 108, 111, 114, 100, 32, 97, 119, 97, 107, 101, 110,
      115, 32, 97, 109, 105, 100, 115, 116, 32, 116, 104, 117, 110, 100, 101, 114>>

\* what the user may type instead: 'test'
Prompts == {DefaultPrompt, <<116, 101, 115, 116>>}

Null == [kind |-> "null"]

\* the Blob generateAudio stores: its bytes are those of audioBufferToWavBlob
\* for the rendered buffer, its decoded duration is that buffer's
wavBlob(n, secs) ==
    [kind |-> "audio/wav", req |-> n,
     size |-> bufferLength(renderedBuffer(secs)),
     durationMs |-> (renderedBuffer(secs).length * 1000) \div sampleRate]

\* lines 183 and 369: new Blob(chunks, { type: 'video/webm' })
webmBlob(n, parts) == [kind |-> "video/webm", req |-> n, parts |-> parts]

Blobs3 == [audio |-> audioBlob, video |-> videoBlob, merged |-> mergedBlob]

\* one derivation of the Parameter Mapper, with the invocation it was made in
Derivation(p, kind, value) ==
    [prompt |-> p, kind |-> kind, value |-> value,
     again |-> \E d \in derived : d.prompt = p /\ d.kind = kind]

\* lines 81, 82, 111: the three audio parameters
audioParams(p) ==
    [baseFrequencyHz |-> baseFreq(p),
     detuneCents     |-> detuneCents(p),
     lfoRate100      |-> lfoRateHundredths(p)]

\* the two derivations on the prompts a session uses
color == [p \in Prompts |-> paletteFromPrompt(p)]

promptParams == [p \in Prompts |-> audioParams(p)]

NoCanvas == [elapsed |-> 0 - 1]

IdleApp ==
    /\ prompt = DefaultPrompt
    /\ audioBlob = Null /\ videoBlob = Null /\ mergedBlob = Null
    /\ loading = "" /\ pc = "idle" /\ reqPrompt = DefaultPrompt
    /\ recorder = "none" /\ chunks = <<>> /\ emitted = 0
    /\ rafPending = FALSE /\ rafDriver = "none" /\ target = 0 /\ stale = <<>>
    /\ elapsed = 0 /\ audioTimer = FALSE /\ stopTimer = FALSE /\ audioStartedAt = 0 - 1
    /\ stoppedAt = 0 - 1 /\ emittedLog = <<>> /\ canvas = NoCanvas
    /\ nreq = 0 /\ lastOp = [op |-> "none", hadAudio |-> FALSE]
    /\ failure = "none" /\ reported = "none" /\ effects = {}
    /\ snapshot = [audio |-> Null, video |-> Null, merged |-> Null]
    \* line 399: useMemo(() => paletteFromPrompt(prompt), [prompt]) on first render
    /\ derived = {[prompt |-> DefaultPrompt, kind |-> "palette",
                   value |-> color[DefaultPrompt], again |-> FALSE]}

sessionVars == <<recorder, chunks, emitted, rafPending, rafDriver, target, stale,
                 elapsed, audioTimer, stopTimer, audioStartedAt, stoppedAt,
                 emittedLog, canvas>>

\* what each action that is no draw and no recorder event leaves alone
logVars == <<stoppedAt, emittedLog, canvas>>


blobVars == <<audioBlob, videoBlob, mergedBlob>>

\* lines 491, 495, 499: every button is disabled while `loading` is set
ButtonsEnabled == loading = ""

\* a pending draw callback of an earlier session sees elapsed + base as its own
\* elapsed time; when the clock restarts after `ms`, its base moves on by `ms`.
\* The callback compares that time with its target only (lines 344-346), so
\* the base is kept no further than the target.
later(c, ms) ==
    [base |-> IF c.base + ms < c.target THEN c.base + ms ELSE c.target,
     target |-> c.target]

\* A handler starts while no capture runs (every button is disabled while one
\* does): the recorder, chunks and clock of the finished session are out of
\* reach; only its pending draw callbacks live on.
ForgetSession ==
    /\ recorder' = "none"
    /\ chunks' = <<>>
    /\ emitted' = 0
    /\ rafDriver' = "none"
    /\ target' = 0
    /\ stale' = [i \in 1 .. Len(stale) |-> later(stale[i], elapsed)]
    /\ elapsed' = 0
    /\ audioStartedAt' = 0 - 1
    /\ stoppedAt' = 0 - 1
    /\ emittedLog' = <<>>
    /\ canvas' = NoCanvas
    /\ UNCHANGED <<rafPending, audioTimer, stopTimer>>

\* the bookkeeping of a handler invocation: a new request number, and what
\* the invocation has failed at, reported and started so far
Invoke(op, fail, rep, eff) ==
    /\ nreq' = nreq + 1
    /\ lastOp' = [op |-> op, hadAudio |-> audioBlob # Null]
    /\ failure' = fail
    /\ reported' = rep
    /\ effects' = eff
    /\ snapshot' = Blobs3
    /\ reqPrompt' = prompt

\* line 484: onChange = setPrompt; the re-render recomputes `color` (line 399)
SetPrompt(p) ==
    /\ p # prompt
    /\ prompt' = p
    /\ derived' = derived \cup {Derivation(p, "palette", color[p])}
    /\ UNCHANGED <<blobVars, loading, pc, reqPrompt, sessionVars, nreq, lastOp,
                   failure, reported, effects, snapshot>>
    /\ UNCHANGED <<hashVars, wavVars, renderVars>>

\* lines 401-412 up to the await of line 165.  ok: the audio graph of lines
\* 79-163 was built; otherwise new OfflineAudioContext threw, the async
\* function rejected and catch / finally ran.
GenerateAudio(ok) ==
    /\ ButtonsEnabled /\ nreq < MaxRequests
    /\ IF ok
       THEN /\ loading' = "audio"
            /\ pc' = "audio"
            /\ Invoke("audio", "none", "none", {"render"})
            /\ derived' = derived \cup {Derivation(prompt, "audio", promptParams[prompt])}
       ELSE /\ loading' = ""
            /\ pc' = "idle"
            /\ Invoke("audio", "render", "audio", {})
            /\ derived' = derived
    /\ ForgetSession
    /\ UNCHANGED <<prompt, blobVars>>
    /\ UNCHANGED <<hashVars, wavVars, renderVars>>

\* startRendering settles (line 165); on success line 166 encodes and lines
\* 405, 410 store the blob; a rejected render or a throwing encoder goes to
\* catch / finally
AudioRendered(outcome) ==
    /\ pc = "audio"
    /\ pc' = "idle"
    /\ loading' = ""
    /\ IF outcome = "ok"
       THEN /\ audioBlob' = wavBlob(nreq, audioSeconds)
            /\ UNCHANGED <<failure, reported>>
       ELSE /\ audioBlob' = audioBlob
            /\ failure' = outcome
            /\ reported' = "audio"
    /\ UNCHANGED <<prompt, videoBlob, mergedBlob, reqPrompt, sessionVars, nreq,
                   lastOp, effects, snapshot, derived>>
    /\ UNCHANGED <<hashVars, wavVars, renderVars>>

\* a new capture session: recorder.start() and requestAnimationFrame(draw)
\* (lines 267-268, 371-372) with start = performance.now() (lines 187, 301);
\* the draw callbacks of earlier sessions keep their own start
StartSession(driver, tgt) ==
    /\ recorder' = "recording"
    /\ chunks' = <<>>
    /\ emitted' = 0
    /\ rafPending' = TRUE
    /\ rafDriver' = driver
    /\ target' = tgt
    /\ stale' = [i \in 1 .. Len(stale) |-> later(stale[i], elapsed)]
    /\ elapsed' = 0
    /\ audioStartedAt' = 0 - 1
    /\ stoppedAt' = 0 - 1
    /\ emittedLog' = <<>>
    /\ canvas' = NoCanvas

\* lines 414-425 with the executor of lines 172-269.  ok: the canvas, the
\* stream and the recorder were made and started.  Otherwise a statement of
\* the executor threw (new MediaRecorder, line 179): the executor is an async
\* function, so only its own promise rejects; neither resolve nor reject of
\* the promise generateVideo awaits is ever called.
GenerateVideo(ok) ==
    /\ ButtonsEnabled /\ nreq < MaxRequests
    /\ loading' = "video"
    /\ pc' = "video"
    /\ IF ok
       THEN /\ Invoke("video", "none", "none", {"recorder", "recorderStart", "raf"})
            /\ StartSession("video", videoSeconds * 1000)
            /\ derived' = derived \cup
                   {Derivation(prompt, "palette", color[prompt])}
            /\ UNCHANGED <<audioTimer, stopTimer>>
       ELSE /\ Invoke("video", "capture", "none", {})
            /\ ForgetSession
            /\ UNCHANGED derived
    /\ UNCHANGED <<prompt, blobVars>>
    /\ UNCHANGED <<hashVars, wavVars, renderVars>>

\* line 428: if (!audioBlob) return alert(...)
PreconditionMetAlways(blob) == TRUE

PreconditionMet(blob) == blob # Null

\* lines 427-443 up to the first await of renderMergedAV (line 275).
\* ok: new AudioContext() (line 274) succeeded.
\* The handler is entered through the Merge button, or by any other caller of
\* the operation: the button's own `!audioBlob` (line 499) is not assumed.
MergeAndPreview(ok) ==
    /\ ButtonsEnabled /\ nreq < MaxRequests
    /\ IF ~PreconditionMet(audioBlob)
       THEN /\ ok
            /\ Invoke("merge", "precondition", "precondition", {})
            /\ UNCHANGED <<loading, pc>>
       ELSE IF ok
       THEN /\ Invoke("merge", "none", "none", {"decode"})
            /\ loading' = "merge"
            /\ pc' = "decode"
       ELSE /\ Invoke("merge", "context", "merge", {})
            /\ loading' = ""
            /\ pc' = "idle"
    /\ ForgetSession
    /\ UNCHANGED <<prompt, blobVars, derived>>
    /\ UNCHANGED <<hashVars, wavVars, renderVars>>

\* line 277: decoded.duration, in ms
decodedDurationMs(blob) == blob.durationMs

\* A plausible slip: the stop timer without its trailing margin.
stopDelayNoMargin(durationMs) == durationMs

\* line 379: Math.ceil(duration * 1000) + 100
stopDelay(durationMs) == durationMs + stopMarginMs

\* A plausible slip: the capture set up whatever became of the decode.
CaptureStartsAlways(outcome) == TRUE

\* lines 275-276: the awaits throw unless the decode succeeded, so lines
\* 279-380 run only then
CaptureStarts(outcome) == outcome = "ok"

\* arrayBuffer / decodeAudioData settle (lines 275-276).  "ok": lines 277-380
\* run: the capture session starts with its two timers.  "decode": the decode
\* rejected.  "capture": a statement of lines 279-296 threw (new MediaRecorder).
\* Both failures reject renderMergedAV; catch / finally of lines 437-442 run.
DecodeDone(outcome) ==
    /\ pc = "decode"
    /\ outcome = "ok" => audioBlob # Null
    /\ IF CaptureStarts(outcome)
       THEN /\ StartSession("merge", IF audioBlob # Null THEN decodedDurationMs(audioBlob) ELSE 0)
            /\ audioTimer' = TRUE
            /\ stopTimer' = TRUE
            /\ pc' = "merge"
            /\ effects' = effects \cup {"recorder", "recorderStart", "raf", "timers"}
            /\ derived' = derived \cup
                   {Derivation(reqPrompt, "palette", color[reqPrompt])}
            /\ failure' = IF outcome = "ok" THEN failure ELSE outcome
            /\ UNCHANGED <<loading, reported>>
       ELSE /\ failure' = outcome
            /\ reported' = "merge"
            /\ loading' = ""
            /\ pc' = "idle"
            /\ UNCHANGED <<sessionVars, effects, derived>>
    /\ UNCHANGED <<prompt, blobVars, reqPrompt, nreq, lastOp, snapshot>>
    /\ UNCHANGED <<hashVars, wavVars, renderVars>>

\* the clock of the session moves on while anything waits for it
Advance(t) ==
    /\ rafPending \/ stale # <<>> \/ audioTimer \/ stopTimer \/ recorder = "recording"
    /\ t > elapsed
    /\ elapsed' = t
    /\ UNCHANGED <<prompt, blobVars, loading, pc, reqPrompt, recorder, chunks, emitted,
                   rafPending, rafDriver, target, stale, audioTimer, stopTimer,
                   audioStartedAt, logVars, nreq, lastOp, failure, reported, effects,
                   snapshot, derived>>
    /\ UNCHANGED <<hashVars, wavVars, renderVars>>

\* A plausible slip: the draw asks for another frame whatever the time.
StillDrawingAlways(c) == TRUE

\* lines 344-346 for a draw of an earlier merge session: it asks for another
\* frame while its own elapsed time is below its duration
StillDrawing(c) == elapsed + c.base < c.target

\* the drawing steps of draw in generateProceduralVideo, lines 191-240, in
\* their order.  The rotation elapsed * 0.6 is kept in 1/10000 rad (elapsed is
\* in ms), alpha in hundredths.
drawVideo(el, p, col) ==
    <<[step |-> "background", stops |-> <<"#05070a", "#0b1220">>],
      [step |-> "ring", arcs |-> 60, rotation |-> el * 6, stroke |-> col,
       alpha |-> 65, lineWidth |-> 2],
      [step |-> "ribbon", points |-> 200, stroke |-> col, alpha |-> 90,
       lineWidth |-> 3],
      [step |-> "text", text |-> p, fill |-> "#c7f0ff", alpha |-> 95]>>

\* the drawing steps of draw in renderMergedAV, lines 305-342
drawMerge(el, p, col) ==
    <<[step |-> "background", stops |-> <<"#05070a", "#0b1220">>],
      [step |-> "ring", arcs |-> 60, rotation |-> el * 7, stroke |-> col,
       alpha |-> 65, lineWidth |-> 2],
      [step |-> "text", text |-> p, fill |-> "#c7f0ff", alpha |-> 95]>>

\* A plausible slip: the callback asks for the next frame whatever the time.
NextFrameWantedAlways(el, tgt) == TRUE

\* lines 242, 344: if (elapsed < seconds), if (elapsed < duration)
NextFrameWanted(el, tgt) == el < tgt

\* One animation frame: every pending draw callback runs (lines 189-247,
\* 303-347), those of earlier sessions first.
Frame ==
    /\ rafPending \/ stale # <<>>
    \* the frames of one session have increasing timestamps
    /\ rafPending => canvas.elapsed < elapsed
    /\ stale' = SelectSeq(stale, StillDrawing)
    /\ IF ~rafPending
       THEN UNCHANGED <<rafPending, recorder, stoppedAt, canvas>>
       ELSE /\ canvas' = [elapsed |-> elapsed, driver |-> rafDriver,
                          steps |-> IF rafDriver = "video"
                                    THEN drawVideo(elapsed, reqPrompt, color[reqPrompt])
                                    ELSE drawMerge(elapsed, reqPrompt, color[reqPrompt])]
            /\ IF NextFrameWanted(elapsed, target)
               THEN UNCHANGED <<rafPending, recorder, stoppedAt>>
               ELSE /\ rafPending' = FALSE
                    \* line 245: only the plain video driver stops the capture here
                    /\ IF rafDriver = "video"
                       THEN /\ recorder' = "flushing"
                            /\ stoppedAt' = elapsed
                       ELSE UNCHANGED <<recorder, stoppedAt>>
    /\ UNCHANGED <<prompt, blobVars, loading, pc, reqPrompt, chunks, emitted,
                   rafDriver, target, elapsed, audioTimer, stopTimer, audioStartedAt,
                   emittedLog, nreq, lastOp, failure, reported, effects, snapshot,
                   derived>>
    /\ UNCHANGED <<hashVars, wavVars, renderVars>>

\* A plausible slip: every chunk is kept, the empty ones too.
ondataavailableKeepAll(cs, n, size) == Append(cs, [seq |-> n, size |-> size])

\* lines 181, 298: e.data.size && chunks.push(e.data)
ondataavailable(cs, n, size) ==
    IF size # 0 THEN Append(cs, [seq |-> n, size |-> size]) ELSE cs

\* the recorder hands over a chunk while it records
DataAvailable(size) ==
    /\ recorder = "recording"
    /\ emitted < MaxChunks
    /\ emitted' = emitted + 1
    /\ emittedLog' = Append(emittedLog, [seq |-> emitted + 1, size |-> size])
    /\ chunks' = ondataavailable(chunks, emitted + 1, size)
    /\ UNCHANGED <<prompt, blobVars, loading, pc, reqPrompt, recorder, rafPending,
                   rafDriver, target, stale, elapsed, audioTimer, stopTimer,
                   audioStartedAt, stoppedAt, canvas, nreq, lastOp, failure,
                   reported, effects, snapshot, derived>>
    /\ UNCHANGED <<hashVars, wavVars, renderVars>>

\* after stop() the recorder fires a last dataavailable, then stop
FlushData(size) ==
    /\ recorder = "flushing"
    /\ recorder' = "stopPending"
    /\ emitted' = emitted + 1
    /\ emittedLog' = Append(emittedLog, [seq |-> emitted + 1, size |-> size])
    /\ chunks' = ondataavailable(chunks, emitted + 1, size)
    /\ UNCHANGED <<prompt, blobVars, loading, pc, reqPrompt, rafPending,
                   rafDriver, target, stale, elapsed, audioTimer, stopTimer,
                   audioStartedAt, stoppedAt, canvas, nreq, lastOp, failure,
                   reported, effects, snapshot, derived>>
    /\ UNCHANGED <<hashVars, wavVars, renderVars>>

\* recorder.onstop (lines 182-184, 368-370) resolves with the Blob of chunks;
\* the awaiting handler stores it and clears `loading` (lines 418, 423 and
\* 432, 441).  A draw callback still pending stays pending.
OnStop ==
    /\ recorder = "stopPending"
    /\ recorder' = "stopped"
    /\ pc \in {"video", "merge"}
    /\ IF pc = "video"
       THEN /\ videoBlob' = webmBlob(nreq, chunks)
            /\ UNCHANGED mergedBlob
       ELSE /\ mergedBlob' = webmBlob(nreq, chunks)
            /\ UNCHANGED videoBlob
    /\ loading' = ""
    /\ pc' = "idle"
    /\ rafPending' = FALSE
    /\ stale' = IF rafPending THEN Append(stale, [base |-> 0, target |-> target]) ELSE stale
    /\ UNCHANGED <<prompt, audioBlob, reqPrompt, chunks, emitted, rafDriver, target,
                   elapsed, audioTimer, stopTimer, audioStartedAt, logVars, nreq,
                   lastOp, failure, reported, effects, snapshot, derived>>
    /\ UNCHANGED <<hashVars, wavVars, renderVars>>

\* lines 374-376: src.start(), no sooner than 50 ms after the session began
AudioTimerFire ==
    /\ audioTimer
    /\ elapsed >= audioLeadMs
    /\ audioTimer' = FALSE
    /\ audioStartedAt' = elapsed
    /\ UNCHANGED <<prompt, blobVars, loading, pc, reqPrompt, recorder, chunks, emitted,
                   rafPending, rafDriver, target, stale, elapsed, stopTimer,
                   logVars, nreq, lastOp, failure, reported, effects, snapshot,
                   derived>>
    /\ UNCHANGED <<hashVars, wavVars, renderVars>>

\* lines 377-379: recorder.stop(); timers of one window run in the order of
\* their delays, so the audio timer has run
StopTimerFire ==
    /\ stopTimer
    /\ ~audioTimer
    /\ elapsed >= stopDelay(target)
    /\ stopTimer' = FALSE
    /\ recorder' = IF recorder = "recording" THEN "flushing" ELSE recorder
    /\ stoppedAt' = elapsed
    /\ UNCHANGED <<prompt, blobVars, loading, pc, reqPrompt, chunks, emitted,
                   rafPending, rafDriver, target, stale, elapsed, audioTimer,
                   audioStartedAt, emittedLog, canvas, nreq, lastOp, failure,
                   reported, effects, snapshot, derived>>
    /\ UNCHANGED <<hashVars, wavVars, renderVars>>

-----------------------------------------------------------------------------
(***************************************************************************)
(* Reading the encoder's bytes back.                                       *)
(***************************************************************************)
U16At(v, off) == v[off + 1] + 256 * v[off + 2]

U32At(v, off) == U16At(v, off) + W16 * U16At(v, off + 2)

Int16At(v, off) == IF U16At(v, off) >= 32768 THEN U16At(v, off) - W16 ELSE U16At(v, off)

StringAt(v, off, n) == [i \in 1 .. n |-> v[off + i]]

HeaderWritten == wpc \in {"interleave", "pcm", "done"}

\* the sample positions the PCM loop has written so far
Written == 0 .. (widx - 1)


(***************************************************************************)
(* C4.  For every buffer with C channels, N frames and rate R the encoder  *)
(* produces 44 + N*C*2 bytes; read back from the bytes, the RIFF size is   *)
(* 36 + N*C*2, the data size N*C*2, the block align C*2, the byte rate     *)
(* R*C*2 and the bits per sample 16; the header fields lie in the stated   *)
(* order and the header cursor ends at byte 44.  The buffer rendered for   *)
(* s seconds (2 channels, s*44100 frames) therefore gives                  *)
(* 44 + s*44100*2*2 bytes.                                                 *)
(***************************************************************************)
C4_HeaderExact ==
    /\ HeaderWritten =>
         LET C == buffer.numberOfChannels
             N == buffer.length
             R == buffer.sampleRate
         IN  /\ Len(view) = 44 + N * C * 2
             /\ offset = 44
             /\ StringAt(view, 0, 4) = <<82, 73, 70, 70>>
             /\ U32At(view, 4) = 36 + N * C * 2
             /\ StringAt(view, 8, 4) = <<87, 65, 86, 69>>
             /\ StringAt(view, 12, 4) = <<102, 109, 116, 32>>
             /\ U32At(view, 16) = 16
             /\ U16At(view, 20) = 1
             /\ U16At(view, 22) = C
             /\ U32At(view, 24) = R
             /\ U32At(view, 28) = R * C * 2
             /\ U16At(view, 32) = C * 2
             /\ U16At(view, 34) = 16
             /\ StringAt(view, 36, 4) = <<100, 97, 116, 97>>
             /\ U32At(view, 40) = N * C * 2
    /\ \A sec \in 1 .. MaxSeconds :
         bufferLength(renderedBuffer(sec)) = 44 + sec * 44100 * 2 * 2

C4_Witness ==
    /\ wpc = "done"
    /\ buffer.numberOfChannels = 2 /\ buffer.length >= 2
    /\ buffer.sampleRate = sampleRate

\* Math.round of n / d for d > 0: floor(n/d + 1/2)
roundHalfUp(n, d) == (2 * n + d) \div (2 * d)

(***************************************************************************)
(* C5.  Every sample written is round(clamp(s,-1,1) * (s<0 ? 32768 :       *)
(* 32767)), rounded to the nearest integer, and lies in [-32768, 32767].   *)
(***************************************************************************)
C5_SamplesRounded ==
    \A j \in Written :
        LET k == clamp(interleaved[j + 1])
            want == roundHalfUp(IF k < 0 THEN k * 32768 ELSE k * 32767, SampleDen)
            got == Int16At(view, 44 + 2 * j)
        IN  got = want /\ got >= 0 - 32768 /\ got <= 32767

\* A decoder of 16-bit PCM that undoes the encoder's two scales: the sample
\* value of v is v / 32768 for v < 0 and v / 32767 otherwise.
decodeSample(v) == IF v < 0 THEN [num |-> v, den |-> 32768] ELSE [num |-> v, den |-> 32767]

Abs(x) == IF x < 0 THEN 0 - x ELSE x

\* | k / SampleDen - d.num / d.den | <= 1 / 32767, in integers that stay small
WithinQuantum(k, d) ==
    LET diff == Abs(k * d.den - d.num * SampleDen)
    IN  /\ diff <= 2 * SampleDen
        /\ diff * 32767 <= SampleDen * d.den

Int16Of(k) ==
    LET v == truncate(scaled(clamp(k)), SampleDen)
    IN  IF v < 0 THEN v + W16 ELSE v

\* where the PCM loop is, and what it has stored, in terms of the buffer
SamplesInPlace ==
    LET C == buffer.numberOfChannels
        N == buffer.length
    IN  /\ Len(view) = 44 + N * C * 2
        /\ idx = 44 + 2 * widx
        /\ idx <= Len(view)
        /\ \A i \in 0 .. (N - 1) : \A ch \in 0 .. (C - 1) :
               (i * C + ch < widx) =>
                   LET at == 44 + 2 * (i * C + ch)
                   IN  /\ view[at + 1] = Int16Of(getChannelData(buffer, ch, i)) % 256
                       /\ view[at + 2] = Int16Of(getChannelData(buffer, ch, i)) \div 256
        /\ (wpc = "done") => widx = N * C

\* a step of the PCM loop stores at the next sample position and nowhere else
OneSampleStored ==
    (wpc = "pcm") =>
        /\ Len(view') = Len(view)
        /\ \A k \in 1 .. Len(view) :
               (view'[k] # view[k]) => (k > 44 /\ k \in {45 + 2 * widx, 46 + 2 * widx})
        /\ (view' # view) => (widx' = widx + 1 /\ 46 + 2 * widx <= Len(view))
        /\ widx' \in {widx, widx + 1}

(***************************************************************************)
(* C16.  For every buffer with C channels and N frames the 16-bit          *)
(* little-endian value of channel ch, frame i is written at byte offset    *)
(* 44 + 2*(i*C + ch): frames in time order, channels in index order inside *)
(* a frame, every sample once, no header byte (0..43) overwritten by       *)
(* sample data and no byte at or beyond 44 + N*C*2 written.                *)
(***************************************************************************)
C16_SampleLayout ==
    /\ [](wpc \in {"pcm", "done"} => SamplesInPlace)
    /\ [][OneSampleStored]_vars

\* two channels, two frames or more, all stored, and the second channel's first
\* sample differs in its bytes from the first channel's second
C16_Witness ==
    /\ wpc = "done"
    /\ buffer.numberOfChannels = 2 /\ buffer.length >= 2
    /\ widx = 2 * buffer.length
    /\ Int16Of(getChannelData(buffer, 1, 0)) # Int16Of(getChannelData(buffer, 0, 1))

-----------------------------------------------------------------------------
(***************************************************************************)
(* C7.  For every prompt the derived audio parameters are in range:        *)
(* baseFrequencyHz in [110,330), detuneCents in [-100,100) and lfoRateHz   *)
(* in [0.1,0.4) (10 to 39 hundredths), also for the extreme hash values.   *)
(***************************************************************************)
C7_ParamsInRange ==
    params # NoParams =>
        /\ params.baseFrequencyHz >= 110 /\ params.baseFrequencyHz < 330
        /\ params.detuneCents >= 0 - 100 /\ params.detuneCents < 100
        /\ params.lfoRate100 >= 10 /\ params.lfoRate100 < 40

\* parameters derived from the prompt whose accumulator ends at -2^31
C7_Witness == params # NoParams /\ str = MinInt32Prompt /\ hash = Num(W16 - 1, 32768, 0)

(***************************************************************************)
(* C8.  For every string hashString returns a non-negative integer that    *)
(* fits a 32-bit signed integer, a value in [0, 2^31 - 1].                 *)
(***************************************************************************)
C8_HashFitsInt32 == ~IsNegative(hashResult) /\ IsInt32(hashResult)

\* the absolute value of the reference accumulator, as a number
RefAbs(a) == IF a[1] >= 32768 THEN Sub48(Num(0, 0, 0), a) ELSE a

(***************************************************************************)
(* C9.  hashString equals the reference fold: at every step the code's     *)
(* shift-left-5-minus-self accumulator, wrapped to 32 bits, equals the     *)
(* reference acc*31 + code wrapped to 32 bits, and the result is abs(acc). *)
(***************************************************************************)
C9_HashIsReferenceFold ==
    /\ hash = refAcc
    /\ hashResult = RefAbs(refAcc)
    /\ hashString(str) = RefAbs(refAcc)

\* the accumulator has wrapped to a negative value
C9_Witness == Len(str) = MaxLen /\ IsNegative(hash)

-----------------------------------------------------------------------------
(***************************************************************************)
(* The handlers of App, lines 401-443.                                     *)
(***************************************************************************)
CaptureEffects == {"recorder", "recorderStart", "raf", "timers"}

MergeWithoutAudio == lastOp.op = "merge" /\ ~lastOp.hadAudio

\* C1: a merge requested while no audio blob is stored is reported at once as
\* a precondition failure; for it no decode, no recorder start and no frame
\* callback is started, `loading` is not set and no merged blob is stored.
C1_MergeNeedsAudio ==
    MergeWithoutAudio =>
        /\ reported = "precondition"
        /\ effects = {}
        /\ loading = "" /\ pc = "idle"
        /\ recorder = "none" /\ ~rafPending /\ ~audioTimer /\ ~stopTimer
        /\ mergedBlob = snapshot.merged

C1_Witness == MergeWithoutAudio /\ videoBlob # Null /\ failure = "precondition"

\* C2: every failure of the in-flight request is surfaced: once the task in
\* which it occurred is over, the error is reported, `loading` is '' again
\* and the three blobs are those from before the request.
C2_FailuresSurfaced ==
    failure # "none" =>
        /\ reported # "none"
        /\ loading = "" /\ pc = "idle"
        /\ Blobs3 = snapshot

\* C3: a failed decode fails the merge before any capture session exists: no
\* recorder made or started, no frame callback, no timer, and no blob.
C3_DecodeFailsBeforeCapture ==
    failure = "decode" =>
        /\ reported = "merge"
        /\ effects \cap CaptureEffects = {}
        /\ recorder = "none" /\ ~rafPending /\ ~audioTimer /\ ~stopTimer
        /\ loading = "" /\ pc = "idle"
        /\ mergedBlob = snapshot.merged

C3_Witness == failure = "decode" /\ lastOp.op = "merge" /\ audioBlob # Null

-----------------------------------------------------------------------------
(***************************************************************************)
(* The envelope of the master gain.                                        *)
(***************************************************************************)
EnvelopeScheduled == seconds # 0 /\ Len(gainCalls) = 4

GainIs(t, tenths) ==
    LET v == valueAtTime(masterGain, t) IN v.num = tenths * v.den

CallsInTimeOrder ==
    \A i \in 1 .. Len(gainCalls) - 1 : gainCalls[i].time <= gainCalls[i + 1].time

\* C11 as stated: for every accepted duration the envelope is 0 at t=0, 0.8
\* at t=1s, 0.6 at t=(duration-1)s and 0 at t=duration, and its events are
\* scheduled in non-decreasing time order.
C11_EnvelopeBoundary ==
    /\ CallsInTimeOrder
    /\ EnvelopeScheduled =>
        /\ GainIs(0, 0)
        /\ GainIs(1000, 8)
        /\ GainIs(seconds - 1000, 6)
        /\ GainIs(seconds, 0)

\* C11, amended: for every duration of at least 2 s the envelope is 0 at
\* t=0, 0.6 at t=(duration-1)s and 0 at t=duration, with its events scheduled
\* in non-decreasing time order; at t=1s it is 0.8 when the duration exceeds
\* 2 s, and 0.6 when the duration is 2 s (both ramps end at t=1s).
C11_EnvelopeFromTwoSeconds ==
    seconds >= 2000 =>
        /\ CallsInTimeOrder
        /\ EnvelopeScheduled =>
            /\ GainIs(0, 0)
            /\ GainIs(1000, IF seconds > 2000 THEN 8 ELSE 6)
            /\ GainIs(seconds - 1000, 6)
            /\ GainIs(seconds, 0)

C11_Witness ==
    /\ EnvelopeScheduled /\ seconds = audioSeconds * 1000
    /\ gainProbe # NoProbe /\ gainProbe.time = seconds - 1000

-----------------------------------------------------------------------------
(***************************************************************************)
(* The capture sessions.  Of a session's MediaRecorder, "none" is Idle,    *)
(* "recording" is Capturing, and from the call of stop() on ("flushing",   *)
(* "stopPending", "stopped") it is Stopped.                                *)
(***************************************************************************)
Stopped == recorder \in {"flushing", "stopPending", "stopped"}

VideoSession == rafDriver = "video"

\* a step of the session's recorder: forward by one, or a new session
\* (a new recorder) once the old one is over
RecorderStepAllowed ==
    \/ recorder' = recorder
    \/ recorder = "recording" /\ recorder' = "flushing"
    \/ recorder = "flushing" /\ recorder' = "stopPending"
    \/ recorder = "stopPending" /\ recorder' = "stopped"
    \/ recorder \in {"none", "stopped"} /\ recorder' \in {"none", "recording"}

\* a draw callback of the running session has run in this step
FrameRan == canvas' # canvas /\ canvas' # NoCanvas

\* the time of the callback before, or of the session's start
PreviousFrameAt == IF canvas = NoCanvas THEN 0 ELSE canvas.elapsed

\* C12: a plain video session goes Idle -> Capturing -> Stopped only.  A
\* frame callback with elapsed < target schedules the next one and does not
\* stop; the first with elapsed >= target stops the capture and schedules
\* nothing: while Capturing one callback is pending, after the stop none is, and
\* the stop comes less than one frame interval after the target.
C12_VideoStateMachine ==
    /\ [](VideoSession =>
            /\ rafPending <=> recorder = "recording"
            /\ Stopped <=> stoppedAt >= 0
            /\ Stopped => stoppedAt >= target /\ canvas.elapsed = stoppedAt)
    /\ [][/\ RecorderStepAllowed
          /\ (VideoSession /\ FrameRan) =>
                IF elapsed < target
                THEN rafPending' /\ recorder' = "recording" /\ recorder = "recording"
                ELSE /\ ~rafPending' /\ recorder = "recording" /\ recorder' = "flushing"
                     /\ PreviousFrameAt < target
                     /\ stoppedAt' - target < stoppedAt' - PreviousFrameAt]_vars

C12_Witness ==
    /\ VideoSession /\ recorder = "stopped" /\ pc = "idle"
    /\ stoppedAt = videoSeconds * 1000 /\ videoBlob # Null

NonEmptyChunk(c) == c.size # 0

\* the blob the session's request stored
SessionBlob == IF VideoSession THEN videoBlob ELSE mergedBlob

BlobStored == videoBlob' # videoBlob \/ mergedBlob' # mergedBlob

\* C13: in both drivers the resolved blob is the sequence of the non-empty
\* chunks the session emitted, in emission order, none dropped, doubled or
\* out of place and no empty one kept; it is resolved only after the stop,
\* once per session, and nothing is appended once it is assembled.
C13_BlobIsEmittedChunks ==
    /\ [](/\ chunks = SelectSeq(emittedLog, NonEmptyChunk)
          /\ \A i \in 1 .. Len(emittedLog) : emittedLog[i].seq = i
          /\ (recorder = "stopped" /\ pc = "idle") =>
                SessionBlob = webmBlob(nreq, SelectSeq(emittedLog, NonEmptyChunk)))
    /\ [][/\ BlobStored =>
                /\ recorder = "stopPending" /\ recorder' = "stopped"
                /\ stoppedAt >= 0
          /\ (recorder = "stopped" /\ recorder' = "stopped") =>
                chunks' = chunks /\ emittedLog' = emittedLog]_vars

C13_Witness ==
    /\ recorder = "stopped" /\ ~VideoSession /\ mergedBlob # Null
    /\ Len(emittedLog) >= 2 /\ Len(mergedBlob.parts) = 1

MergeSession == rafDriver = "merge"

\* C14: in the merge driver the stop timer is set to the decoded duration plus
\* the 50 ms lead plus the 100 ms margin, so the capture is not stopped before
\* that long after its start.
C14_StopAfterLeadAndMargin ==
    /\ (MergeSession /\ stopTimer) =>
            stopDelay(target) = target + audioLeadMs + stopMarginMs
    /\ (MergeSession /\ stoppedAt >= 0) =>
            stoppedAt >= target + audioLeadMs + stopMarginMs

AudioStarted == audioStartedAt >= 0

CaptureStopped == stoppedAt >= 0

\* C18 as stated: in a merge session capture start precedes audio start, which
\* precedes capture stop; the audio starts 50 ms after capture start and its
\* interval [start, start + decoded duration] ends no later than the stop
\* timer fires.
C18_AudioInsideCapture ==
    MergeSession =>
        /\ AudioStarted => audioStartedAt = audioLeadMs
        /\ CaptureStopped =>
              /\ AudioStarted /\ audioStartedAt <= stoppedAt
              /\ audioStartedAt + target <= stoppedAt

\* C18, amended: capture start precedes audio start, which precedes capture
\* stop; the audio starts no sooner than 50 ms and the stop timer fires no
\* sooner than the decoded duration plus 100 ms after capture start; when the
\* audio starts no more than 100 ms after capture start its whole interval
\* ends no later than the stop timer fires.
C18_AudioInsideCaptureIfPunctual ==
    MergeSession =>
        /\ AudioStarted => audioStartedAt >= audioLeadMs
        /\ CaptureStopped =>
              /\ AudioStarted /\ audioStartedAt <= stoppedAt
              /\ stoppedAt >= target + stopMarginMs
              /\ (audioStartedAt <= stopMarginMs) => (audioStartedAt + target <= stoppedAt)

\* a merge session whose timers both fired at their deadlines
C18_Witness ==
    /\ MergeSession /\ target > 0
    /\ audioStartedAt = audioLeadMs
    /\ stoppedAt = target + stopMarginMs

\* C19: the merge driver paints with the Frame Renderer of the plain video
\* driver: for the same (elapsed, prompt, colour) the same four drawing steps
\* in the same order (background gradient, 60-arc ring rotated by elapsed*0.6
\* radians, 200-point ribbon polyline, wrapped prompt text), same constants.
C19_SameRenderer ==
    (canvas # NoCanvas /\ canvas.driver = "merge") =>
        /\ Len(canvas.steps) = 4
        /\ canvas.steps = drawVideo(canvas.elapsed, reqPrompt, color[reqPrompt])

\* the operation the handler in flight belongs to
OpInFlight ==
    CASE pc = "idle" -> ""
      [] pc = "audio" -> "audio"
      [] pc = "video" -> "video"
      [] pc \in {"decode", "merge"} -> "merge"

CaptureActive == recorder \in {"recording", "flushing", "stopPending"}

\* the blob an operation stores
BlobOf(op) ==
    CASE op = "audio" -> audioBlob
      [] op = "video" -> videoBlob
      [] op = "merge" -> mergedBlob

\* a step starts a request only while the flag is '', stores a blob only for
\* the request the flag names, and clears the flag only as that request
\* resolves (its blob stored) or fails (its error reported)
FlagGuardsRequests ==
    /\ (nreq' # nreq) => loading = ""
    /\ (Blobs3' # Blobs3) =>
          /\ loading # "" /\ loading = OpInFlight
          /\ \A op \in {"audio", "video", "merge"} \ {loading} : BlobOf(op)' = BlobOf(op)
    /\ (loading # "" /\ loading' # loading) =>
          /\ loading' = ""
          /\ \E op \in {"audio", "video", "merge"} :
                /\ op = loading
                /\ BlobOf(op)' # BlobOf(op) \/ reported' = op

\* C20: at most one generation request is in flight: a request starts only
\* while `loading` is '', the flag names the operation in flight for the
\* request's whole life and returns to '' exactly when that request resolves or
\* fails; no two capture sessions or renders are active together and a blob is
\* stored only by the request named in the flag.
C20_OneRequestInFlight ==
    /\ [](/\ loading = OpInFlight
          /\ CaptureActive => loading = rafDriver
          /\ (pc = "audio") => ~CaptureActive
          /\ (failure # "none") => loading = "")
    /\ [][FlagGuardsRequests]_vars

\* the awaited promise of the merge in flight resolves in this step
MergeResolves == pc = "merge" /\ pc' = "idle" /\ recorder' = "stopped"

\* a frame callback of a resolved session runs in this step
LeftoverRuns == Len(stale') < Len(stale)

OnlyFramesStop ==
    (VideoSession /\ pc = "video" /\ recorder = "recording") =>
        \/ FrameRan /\ elapsed >= target /\ recorder' = "flushing" /\ pc' = "video"
        \/ /\ recorder' = "recording" /\ pc' = "video" /\ loading' = "video"
           /\ videoBlob' = videoBlob /\ failure' = failure /\ reported' = reported
           /\ rafPending'

\* C17: with frame callbacks that keep firing and a clock that keeps advancing
\* every plain video generation reaches Stopped and resolves; short of a frame
\* at the target the request stays Capturing and pending, neither resolved nor
\* failed, and nothing else stops the capture.
C17_VideoResolves ==
    /\ (pc = "video") ~> (pc = "idle" /\ VideoSession /\ recorder = "stopped")
    /\ [][OnlyFramesStop]_vars

-----------------------------------------------------------------------------
(***************************************************************************)
(* wrapText.                                                               *)
(***************************************************************************)
SingleWord(line) == \A i \in 1 .. Len(line) : line[i] # Space

LineFits(line) ==
    \/ measureText(wrapArgs.cw, line) <= wrapArgs.maxWidth
    \/ SingleWord(line) /\ measureText(wrapArgs.cw, line) > wrapArgs.maxWidth

WrappedWell(r) ==
    r.returned =>
        /\ Len(r.lines) <= 4
        /\ \A i \in 1 .. Len(r.lines) : LineFits(r.lines[i])

\* C15: for every text and max width wrapText returns at most 4 lines, each
\* no wider than maxWidth or else a single unsplit word wider than maxWidth;
\* the copies of wrapText in the two drivers return the same lines.
C15_WrapText ==
    /\ WrappedWell(linesVideo)
    /\ WrappedWell(linesMerge)
    /\ (linesVideo.returned /\ linesMerge.returned) => linesVideo = linesMerge

\* five words that each take a line, the first wider than maxWidth
C15_Witness ==
    /\ linesVideo.returned /\ linesMerge.returned
    /\ Len(wrapTextVideoNoCap(wrapArgs.text, wrapArgs.maxWidth, wrapArgs.cw)) = 5
    /\ measureText(wrapArgs.cw, linesVideo.lines[1]) > wrapArgs.maxWidth

-----------------------------------------------------------------------------
(***************************************************************************)
(* The specifications.                                                     *)
(***************************************************************************)
InitHash == IdleHash /\ IdleWav /\ IdleApp /\ IdleRender

NextHash == (\E c \in Alphabet : HashChar(c)) \/ Derive

SpecHash == InitHash /\ [][NextHash]_vars

InitWav ==
    /\ IdleHash /\ IdleApp /\ IdleRender
    /\ buffer \in Buffers
    /\ wpc = "start" /\ view = <<>> /\ offset = 0
    /\ interleaved = <<>> /\ idx = 0 /\ widx = 0

NextWav == Allocate \/ WriteHeader \/ Interleave \/ WriteSample \/ ReturnBlob

SpecWav == InitWav /\ [][NextWav]_vars

InitEnvelope ==
    /\ IdleHash /\ IdleWav /\ IdleApp
    /\ seconds \in Durations
    /\ gainCalls = <<>> /\ masterGain = <<>> /\ gainProbe = NoProbe
    /\ IdleWrap

NextEnvelope ==
    \/ ScheduleGain
    \/ \E t \in {500 * k : k \in 0 .. 2 * MaxSeconds + 2} : ReadGain(t)

SpecEnvelope == InitEnvelope /\ [][NextEnvelope]_vars

InitWrap ==
    /\ IdleHash /\ IdleWav /\ IdleApp /\ IdleEnvelope
    /\ wrapArgs \in [text : Texts, maxWidth : 0 .. MaxWidth, cw : Measures]
    /\ linesVideo = NoLines /\ linesMerge = NoLines

NextWrap == WrapVideo \/ WrapMerge

SpecWrap == InitWrap /\ [][NextWrap]_vars

Init == IdleHash /\ IdleWav /\ IdleApp /\ IdleRender

Next ==
    \/ \E p \in Prompts : SetPrompt(p)
    \/ \E ok \in BOOLEAN : GenerateAudio(ok)
    \/ \E outcome \in {"ok", "render", "encode"} : AudioRendered(outcome)
    \/ \E ok \in BOOLEAN : GenerateVideo(ok)
    \/ \E ok \in BOOLEAN : MergeAndPreview(ok)
    \/ \E outcome \in {"ok", "decode", "capture"} : DecodeDone(outcome)
    \/ \E t \in Instants : Advance(t)
    \/ Frame
    \/ \E size \in {0, 1} : DataAvailable(size)
    \/ \E size \in {0, 1} : FlushData(size)
    \/ OnStop
    \/ AudioTimerFire
    \/ StopTimerFire

Spec == Init /\ [][Next]_vars

\* The host keeps running what is scheduled: frame callbacks with a clock that
\* moves on (requestAnimationFrame), and the recorder's dataavailable and stop
\* events once recorder.stop() was called.
Fairness ==
    /\ WF_vars(\E t \in Instants : Advance(t))
    /\ WF_vars(Frame)
    /\ WF_vars(\E size \in {0, 1} : FlushData(size))
    /\ WF_vars(OnStop)

SpecFair == Spec /\ Fairness
=============================================================================
